---- MODULE Spec2Model ----
(***************************************************************************)
(* Model of grinder/tlsparser.py: TlsParser, the TLS-Scanner result        *)
(* ingestion and aggregation pipeline.                                     *)
(*                                                                         *)
(* Representation.                                                         *)
(*  - A catalog entry / report line name is a sequence of words, so that   *)
(*    the regular expression search of _parse_attacks can be computed.     *)
(*  - A report text is a sequence of lines [name, value]; a line with      *)
(*    value "" is the bare text of name (no " : value" part).              *)
(*  - A python dict is a sequence of [key, val] pairs (insertion order).   *)
(*    A dict used as a set of names ({name: True}) is the sequence of its  *)
(*    keys.                                                                *)
(*  - list(set(x)) has an iteration order the program does not fix: it is  *)
(*    a nondeterministic choice among the orderings of the set.            *)
(***************************************************************************)
EXTENDS Integers, Sequences, FiniteSets, TLC

VARIABLES
    hosts,          \* self.hosts: the caller-owned host dataset
    hosts0,         \* the dataset as it was handed to the constructor
    listing,        \* listdir(full_path), as far as the first run consumed it
    idx,            \* number of files the loop of the current run has processed
    run,            \* 1: first call of load_tls_scan_results, 2: second call
    pc,             \* position inside load_tls_scan_results
    all_results,    \* local all_results (ordered dict ip -> record)
    unique_attacks, \* local unique_attacks
    unique_bugs,    \* local unique_bugs
    unique_vulnerabilities, \* local unique_vulnerabilities
    json,           \* content of the four JSON files written by this run
    prev_json,      \* content of the four JSON files written by the first run
    groupped_rows,  \* rows of the grouped CSV file
    results,        \* argument of _parse_attacks (decoder specification)
    parsed          \* value returned by _parse_attacks (decoder specification)

vars == <<hosts, hosts0, listing, idx, run, pc, all_results, unique_attacks,
          unique_bugs, unique_vulnerabilities, json, prev_json, groupped_rows,
          results, parsed>>

(***************************************************************************)
(* Bounds                                                                  *)
(***************************************************************************)
MaxLines == 2   \* lines of a report text in the decoder specification
MaxFiles == 3   \* files in the directory

(***************************************************************************)
(* Catalogs                                                                *)
(***************************************************************************)
LIST_OF_ATTACKS ==
    << <<"Padding", "Oracle">>, <<"Bleichenbacher">>, <<"CRIME">>, <<"Breach">>,
       <<"Invalid", "Curve">>, <<"Invalid", "Curve", "Ephemerals">>,
       <<"SSL", "Poodle">>, <<"TLS", "Poodle">>, <<"CVE-20162107">>,
       <<"Logjam">>, <<"Sweet", "32">>, <<"DROWN">>, <<"Heartbleed">>,
       <<"EarlyCcs">> >>

LIST_OF_BUGS ==
    << <<"Version", "Intolerant">>, <<"Ciphersuite", "Intolerant">>,
       <<"Extension", "Intolerant">>,
       <<"CS", "Length", "Intolerant", "\\(>512", "Byte\\)">>,
       <<"Compression", "Intolerant">>, <<"ALPN", "Intolerant">>,
       <<"CH", "Length", "Intolerant">>, <<"NamedGroup", "Intolerant">>,
       <<"Empty", "last", "Extension", "Intolerant">>,
       <<"SigHashAlgo", "Intolerant">>, <<"Big", "ClientHello", "Intolerant">>,
       <<"2nd", "Ciphersuite", "Byte", "Bug">>,
       <<"Ignores", "offered", "Ciphersuites">>,
       <<"Reflects", "offered", "Ciphersuites">>,
       <<"Ignores", "offered", "NamedGroups">>,
       <<"Ignores", "offered", "SigHashAlgos">> >>

Range(s) == {s[i] : i \in DOMAIN s}

(***************************************************************************)
(* Report Decoder: _parse_attacks                                          *)
(***************************************************************************)
CannotReach == <<"Cannot", "reach", "the", "Server">>
NoSSL == <<"Server", "does", "not", "seem", "to", "support", "SSL">>

\* s occurs in t as a contiguous run of words
Contains(t, s) ==
    \E k \in 0..(Len(t) - Len(s)) : \A j \in 1..Len(s) : t[k + j] = s[j]

\* "marker" in results
MarkerIn(marker, text) == \E i \in DOMAIN text : Contains(text[i].name, marker)

\* the text a regular expression word matches: "\(" matches "(", "\)" matches ")"
Unescape(w) ==
    CASE w = "\\(>512" -> "(>512"
      [] w = "Byte\\)" -> "Byte)"
      [] OTHER -> w

Literal(entry) == [j \in DOMAIN entry |-> Unescape(entry[j])]

\* the pattern r"{entry}\s+: (\w+)" matches inside the line "name : value":
\* the entry's text ends where the name ends, and a value follows
LineMatches(entry, line) ==
    /\ line.value # ""
    /\ Len(entry) <= Len(line.name)
    /\ \A j \in 1..Len(entry) :
           line.name[Len(line.name) - Len(entry) + j] = Literal(entry)[j]

\* findall(pattern, results): the captured values, in text order
RECURSIVE FindAll(_, _)
FindAll(entry, text) ==
    IF text = <<>> THEN <<>>
    ELSE (IF LineMatches(entry, Head(text)) THEN <<Head(text).value>> ELSE <<>>)
         \o FindAll(entry, Tail(text))

\* if not res: continue; if res[0] == "true": update
Detected(entry, text) ==
    LET res == FindAll(entry, text) IN res # <<>> /\ res[1] = "true"

\* the loop over a catalog: the detected entries, in catalog order
RECURSIVE ParseCatalog(_, _)
ParseCatalog(catalog, text) ==
    IF catalog = <<>> THEN <<>>
    ELSE (IF Detected(Head(catalog), text) THEN <<Head(catalog)>> ELSE <<>>)
         \o ParseCatalog(Tail(catalog), text)

\* variant: the second marker is not looked for
HasFailureMarkerFirstOnly(text) == MarkerIn(CannotReach, text)

HasFailureMarker(text) == MarkerIn(CannotReach, text) \/ MarkerIn(NoSSL, text)

parse_attacks(text) ==
    IF HasFailureMarker(text)
    THEN [error |-> TRUE, attacks |-> <<>>, bugs |-> <<>>]
    ELSE [error |-> FALSE,
          attacks |-> ParseCatalog(LIST_OF_ATTACKS, text),
          bugs |-> ParseCatalog(LIST_OF_BUGS, text)]

(***************************************************************************)
(* Decoder specification: _parse_attacks applied to bounded report texts   *)
(***************************************************************************)
\* names of the lines of a report: catalog entries (one of them ends with
\* another), and a line TLS-Scanner prints that is in neither catalog
LineNames ==
    { <<"Heartbleed">>, <<"Extension", "Intolerant">>,
      <<"Empty", "last", "Extension", "Intolerant">>,
      <<"Supports", "Renegotiation">> }

LineValues == {"true", "false", "True"}

ReportLines == [name : LineNames, value : LineValues]

RECURSIVE SeqsUpTo(_, _)
SeqsUpTo(S, n) ==
    IF n = 0 THEN {<<>>}
    ELSE LET shorter == SeqsUpTo(S, n - 1)
         IN shorter \cup {Append(q, x) : q \in {r \in shorter : Len(r) = n - 1}, x \in S}

ReportTexts == SeqsUpTo(ReportLines, MaxLines)

NoParse == [error |-> FALSE, attacks |-> <<>>, bugs |-> <<>>]

\* the main variables, as they are before load_tls_scan_results is called
NoJson == [full |-> <<>>, attacks |-> <<>>, bugs |-> <<>>, vulnerabilities |-> <<>>]

Idle(h) ==
    /\ hosts = h
    /\ hosts0 = h
    /\ listing = <<>>
    /\ idx = 0
    /\ run = 1
    /\ all_results = <<>>
    /\ unique_attacks = <<>>
    /\ unique_bugs = <<>>
    /\ unique_vulnerabilities = <<>>
    /\ json = NoJson
    /\ prev_json = NoJson
    /\ groupped_rows = <<>>

InitParse ==
    /\ Idle(<<>>)
    /\ pc = "parse"
    /\ results \in ReportTexts
    /\ parsed = NoParse

Parse ==
    /\ pc = "parse"
    /\ parsed' = parse_attacks(results)
    /\ pc' = "parsed"
    /\ UNCHANGED <<hosts, hosts0, listing, idx, run, all_results, unique_attacks,
                   unique_bugs, unique_vulnerabilities, json, prev_json,
                   groupped_rows, results>>

NextParse == Parse

SpecParse == InitParse /\ [][NextParse]_vars

\* the text has a line "<entry> : <value>"
HasLine(text, entry, value) ==
    \E i \in DOMAIN text : text[i].name = Literal(entry) /\ text[i].value = value

HasLineFor(text, entry) ==
    \E i \in DOMAIN text : text[i].name = Literal(entry) /\ text[i].value # ""

Catalog == Range(LIST_OF_ATTACKS) \cup Range(LIST_OF_BUGS)

Decoded(p) == Range(p.attacks) \cup Range(p.bugs)

\* C5: for every catalog entry E and every report text without a failure
\* marker: a line "E : true" puts E in the decoded set, a line "E : false" or
\* no line for E leaves E out of it, and every decoded name is a catalog entry.
C5_LinesDecideEntries ==
    (pc = "parsed" /\ ~HasFailureMarker(results)) =>
        /\ \A E \in Catalog :
              /\ HasLine(results, E, "true") => E \in Decoded(parsed)
              /\ (HasLine(results, E, "false") \/ ~HasLineFor(results, E))
                     => E \notin Decoded(parsed)
        /\ Decoded(parsed) \subseteq Catalog

(***************************************************************************)
(* Python dicts as sequences of [key, val] pairs                           *)
(***************************************************************************)
DictKeys(d) == {d[i].key : i \in DOMAIN d}

DictHas(d, k) == \E i \in DOMAIN d : d[i].key = k

DictGet(d, k) == d[CHOOSE i \in DOMAIN d : d[i].key = k].val

\* d.update({k: v}): replaces the value in place, or appends a new key
DictUpdate(d, k, v) ==
    IF DictHas(d, k)
    THEN [i \in DOMAIN d |-> IF d[i].key = k THEN [key |-> k, val |-> v] ELSE d[i]]
    ELSE Append(d, [key |-> k, val |-> v])

\* the orderings of a finite set: what list(set(...)) can return
RECURSIVE Orderings(_)
Orderings(S) ==
    IF S = {} THEN {<<>>}
    ELSE UNION {{<<x>> \o q : q \in Orderings(S \ {x})} : x \in S}

(***************************************************************************)
(* Filename Decoder (load_tls_scan_results, lines 133-140)                 *)
(* A filename is the sequence of its "-"-separated parts and its extension.*)
(***************************************************************************)
IPv4Tokens == {"10.0.0.1", "10.0.0.2", "10.0.0.3"}     \* match \d+.\d+.\d+.\d+
DigitTokens == {"443", "8443"}                         \* match \d+
WordTokens == {"Acme", "Cisco_Systems", "Box_1", "Box_2", "README"} \* match \w+

\* findall(r"(\d+.\d+.\d+.\d+)-(\d+)-(\w+)-(.+).txt", file): the first match;
\* the filenames of the model have at most four parts, so the product group
\* (.+) is the fourth part
search_pattern(file) ==
    IF /\ Len(file.parts) = 4
       /\ file.parts[1] \in IPv4Tokens
       /\ file.parts[2] \in DigitTokens
       /\ file.parts[3] \in WordTokens
       /\ file.ext = ".txt"
    THEN <<file.parts>>
    ELSE <<>>

\* str.replace("_", " ")
ReplaceUnderscores(w) ==
    CASE w = "Cisco_Systems" -> "Cisco Systems"
      [] w = "Box_1" -> "Box 1"
      [] w = "Box_2" -> "Box 2"
      [] OTHER -> w

(***************************************************************************)
(* The host dataset (self.hosts).  A record of the dataset is              *)
(*   present: the ip is a key of the dataset                               *)
(*   fields:  the keys of the record (a record with no keys is falsy)      *)
(*   and the values of the keys it has.                                    *)
(***************************************************************************)
None == "None"

NoSource == [isdict |-> FALSE, ids |-> <<>>]

NoVulnerabilities ==
    [keys |-> {}, shodan_vulnerabilities |-> NoSource, vulners_vulnerabilities |-> NoSource]

AbsentHost ==
    [present |-> FALSE, fields |-> {}, vulnerabilities |-> NoVulnerabilities,
     attacks |-> <<>>, bugs |-> <<>>, country |-> None]

\* hosts.get(ip) is truthy: the key exists and its record is not empty
HostsGet(h, ip) == h[ip].present /\ h[ip].fields # {}

\* vulns.get(source) or []
SourceGet(vulns, source) ==
    IF source \in vulns.keys /\ vulns[source].ids # <<>> THEN vulns[source].ids ELSE <<>>

\* _search_vulnerabilities: the lists list(set(...)) can return (a source that
\* is a dict contributes its keys, which ids holds in both representations)
search_vulnerabilities(h, host_ip) ==
    IF ~HostsGet(h, host_ip) THEN {<<>>}
    ELSE IF ~("vulnerabilities" \in h[host_ip].fields
              /\ h[host_ip].vulnerabilities.keys # {}) THEN {<<>>}
    ELSE LET vulns == h[host_ip].vulnerabilities
             shodan_vulns == SourceGet(vulns, "shodan_vulnerabilities")
             vulners_vulns == SourceGet(vulns, "vulners_vulnerabilities")
         IN Orderings(Range(shodan_vulns \o vulners_vulns))

(***************************************************************************)
(* Ingestion Driver: one iteration of the loop of load_tls_scan_results    *)
(***************************************************************************)
HostRecord(vendor, product, port, attacks, bugs, vulnerabilities) ==
    [vendor |-> vendor, product |-> product, port |-> port, attacks |-> attacks,
     bugs |-> bugs, vulnerabilities |-> vulnerabilities, ip |-> None]

\* variant: the record is stored without looking for an existing one
InsertResultOverwrite(all, ip, record) == DictUpdate(all, ip, record)

\* variant: the result map is a list of records, one per file
InsertResultAppend(all, ip, record) == Append(all, [key |-> ip, val |-> record])

\* if not all_results.get(ip): all_results.update({ip: dict(...)})
\* (a stored record has six keys, so all_results.get(ip) is truthy iff ip is a key)
InsertResult(all, ip, record) ==
    IF ~DictHas(all, ip) THEN DictUpdate(all, ip, record) ELSE all

\* self.hosts[ip].update(dict(attacks=attacks)) / update(dict(bugs=bugs))
HostUpdate(rec, field, value) ==
    [rec EXCEPT !.fields = @ \cup {field}, ![field] = value]

\* variant: self.hosts.setdefault(ip, {}) in place of the test self.hosts.get(ip)
MergeHostSetDefault(h, ip, attacks, bugs) ==
    LET r0 == [h[ip] EXCEPT !.present = TRUE]
        r1 == IF attacks # <<>> THEN HostUpdate(r0, "attacks", attacks) ELSE r0
        r2 == IF bugs # <<>> THEN HostUpdate(r1, "bugs", bugs) ELSE r1
    IN [h EXCEPT ![ip] = r2]

\* if self.hosts.get(ip): if attacks: ...; if bugs: ...
MergeHost(h, ip, attacks, bugs) ==
    IF HostsGet(h, ip)
    THEN LET r1 == IF attacks # <<>> THEN HostUpdate(h[ip], "attacks", attacks) ELSE h[ip]
             r2 == IF bugs # <<>> THEN HostUpdate(r1, "bugs", bugs) ELSE r1
         IN [h EXCEPT ![ip] = r2]
    ELSE h

\* the body of the for loop, for the file `file`
ProcessFile(file) ==
    LET p == parse_attacks(file.text)
        pattern == search_pattern(file.name)
    IN IF p.error THEN UNCHANGED <<all_results, hosts>>
       ELSE IF pattern = <<>> THEN UNCHANGED <<all_results, hosts>>
       ELSE LET ip == pattern[1][1]
                port == pattern[1][2]
                vendor == ReplaceUnderscores(pattern[1][3])
                product == ReplaceUnderscores(pattern[1][4])
            IN \E vulnerabilities \in search_vulnerabilities(hosts, ip) :
                 /\ all_results' = InsertResult(all_results, ip,
                        HostRecord(vendor, product, port, p.attacks, p.bugs,
                                   vulnerabilities))
                 /\ hosts' = MergeHost(hosts, ip, p.attacks, p.bugs)

(***************************************************************************)
(* Frequency Aggregator: count_unique_entities                             *)
(***************************************************************************)
\* [item for sublist in [host.get(ent_type) for host in results.values()]
\*       for item in sublist]
RECURSIVE FlatList(_, _)
FlatList(res, ent_type) ==
    IF res = <<>> THEN <<>>
    ELSE Head(res).val[ent_type] \o FlatList(Tail(res), ent_type)

\* Counter(flat_list): keys in order of first occurrence
RECURSIVE Counter(_)
Counter(flat_list) ==
    IF flat_list = <<>> THEN <<>>
    ELSE LET n == Len(flat_list)
             c == Counter(SubSeq(flat_list, 1, n - 1))
             x == flat_list[n]
         IN IF DictHas(c, x) THEN DictUpdate(c, x, DictGet(c, x) + 1)
            ELSE DictUpdate(c, x, 1)

\* insert e behind the items whose value is not smaller (the sort is stable)
InsertByValue(sorted, e) ==
    LET k == Cardinality({i \in DOMAIN sorted : sorted[i].val >= e.val})
    IN SubSeq(sorted, 1, k) \o <<e>> \o SubSeq(sorted, k + 1, Len(sorted))

\* sorted(items, key=lambda x: x[1], reverse=True)
RECURSIVE SortByValueDesc(_)
SortByValueDesc(items) ==
    IF items = <<>> THEN <<>>
    ELSE LET n == Len(items)
         IN InsertByValue(SortByValueDesc(SubSeq(items, 1, n - 1)), items[n])

\* variant: the counter is returned as it is, not sorted
count_unique_entities_unsorted(res, ent_type) == Counter(FlatList(res, ent_type))

count_unique_entities(res, ent_type) ==
    SortByValueDesc(Counter(FlatList(res, ent_type)))

(***************************************************************************)
(* Grouped Report Builder and writer: save_unique_groupped_results_csv     *)
(***************************************************************************)
\* list(set(...)): the members of S in the iteration order `order`
ListOfSet(S, order) == SelectSeq(order, LAMBDA x : x \in S)

\* products_with_this_attack (lines 307-313)
ProductsWithThisAttack(res, attack) ==
    LET with == SelectSeq(res, LAMBDA item : attack \in Range(item.val.attacks))
    IN [i \in DOMAIN with |->
          [vendor |-> with[i].val.vendor, product |-> with[i].val.product,
           ip |-> with[i].val.ip, port |-> with[i].val.port]]

\* host.get("ip") + ":" + host.get("port")
IpPort(host) == <<host.ip, host.port>>

\* variant: the hosts of a vendor are not told apart by product
ProductIpsOfVendor(products_with_this_attack, vendor, product) ==
    LET of == SelectSeq(products_with_this_attack, LAMBDA host : host.vendor = vendor)
    IN [i \in DOMAIN of |-> IpPort(of[i])]

\* ips (line 320)
ProductIps(products_with_this_attack, vendor, product) ==
    LET of == SelectSeq(products_with_this_attack,
                     LAMBDA host : host.vendor = vendor /\ host.product = product)
    IN [i \in DOMAIN of |-> IpPort(of[i])]

\* sorted(sorted_ips.items(), key=quantity, reverse=True) of the one-entry
\* dict sorted_ips (lines 323-330)
SortedIpsByQuantity(product, ips) ==
    SortByValueDesc(<<[key |-> product, val |-> Len(ips)]>>)

\* groupped_results[attack][vendor] (lines 318-331)
VendorProducts(pwa, vendor, porder) ==
    LET attack_products ==
            ListOfSet({pwa[i].product : i \in {j \in DOMAIN pwa : pwa[j].vendor = vendor}},
                      porder)
    IN [k \in DOMAIN attack_products |->
          LET product == attack_products[k]
              ips == ProductIps(pwa, vendor, product)
              res_sorted_dict == SortedIpsByQuantity(product, ips)
          IN [key |-> res_sorted_dict[1].key,
              val |-> [ips |-> ips, quantity |-> res_sorted_dict[1].val]]]

\* groupped_results[attack] (lines 314-317)
AttackVendors(pwa, vorder, porder) ==
    LET attack_vendors == ListOfSet({pwa[i].vendor : i \in DOMAIN pwa}, vorder)
    IN [k \in DOMAIN attack_vendors |->
          [key |-> attack_vendors[k],
           val |-> VendorProducts(pwa, attack_vendors[k], porder)]]

\* groupped_results (lines 298-331)
GrouppedResults(res, vorder, porder) ==
    LET entities_sorted_by_value == count_unique_entities(res, "attacks")
    IN [k \in DOMAIN entities_sorted_by_value |->
          LET attack == entities_sorted_by_value[k].key
          IN [key |-> attack,
              val |-> AttackVendors(ProductsWithThisAttack(res, attack), vorder, porder)]]

RECURSIVE Concat(_)
Concat(seqs) == IF seqs = <<>> THEN <<>> ELSE Head(seqs) \o Concat(Tail(seqs))

RECURSIVE Sum(_)
Sum(nums) == IF nums = <<>> THEN 0 ELSE Head(nums) + Sum(Tail(nums))

\* vendor_row (lines 339-347); the vendor column is name + " " + "(total)"
VendorRow(attack, vendor, products) ==
    [attack |-> attack, vendor |-> vendor, suffix |-> " (total)", product |-> "",
     ips |-> Concat([i \in DOMAIN products |-> products[i].val.ips]),
     quantity |-> Sum([i \in DOMAIN products |-> products[i].val.quantity])]

\* row (lines 350-357)
ProductRow(attack, vendor, product, info) ==
    [attack |-> attack, vendor |-> vendor, suffix |-> "", product |-> product,
     ips |-> info.ips, quantity |-> info.quantity]

\* the rows written for one (attack, vendor) (lines 338-358)
VendorRows(attack, vendor, products) ==
    <<VendorRow(attack, vendor, products)>>
    \o [i \in DOMAIN products |->
          ProductRow(attack, vendor, products[i].key, products[i].val)]

\* the rows written (lines 337-358)
GrouppedRows(groupped) ==
    Concat([a \in DOMAIN groupped |->
              Concat([v \in DOMAIN groupped[a].val |->
                        VendorRows(groupped[a].key, groupped[a].val[v].key,
                                   groupped[a].val[v].val)])])

(***************************************************************************)
(* Inputs: the directory of report files and the caller's dataset          *)
(***************************************************************************)
Heartbleed == <<"Heartbleed">>
CRIME == <<"CRIME">>
ExtensionIntolerant == <<"Extension", "Intolerant">>

TextHeartbleed == <<[name |-> Heartbleed, value |-> "true"]>>

TextThreeFindings ==
    <<[name |-> CRIME, value |-> "true"],
      [name |-> Heartbleed, value |-> "true"],
      [name |-> ExtensionIntolerant, value |-> "true"]>>

TextNoFinding == <<[name |-> Heartbleed, value |-> "false"]>>

TextCannotReach == <<[name |-> <<"Error:">> \o CannotReach, value |-> ""]>>

TextNoSSL == <<[name |-> Heartbleed, value |-> "true"], [name |-> NoSSL, value |-> ""]>>

FileA == [parts |-> <<"10.0.0.1", "443", "Acme", "Box_1">>, ext |-> ".txt"]
FileB == [parts |-> <<"10.0.0.1", "8443", "Cisco_Systems", "Box_2">>, ext |-> ".txt"]
FileC == [parts |-> <<"10.0.0.2", "443", "Acme", "Box_2">>, ext |-> ".txt"]
FileD == [parts |-> <<"10.0.0.3", "443", "Acme", "Box_1">>, ext |-> ".txt"]
Readme == [parts |-> <<"README">>, ext |-> ".txt"]

\* the files a directory is made of: every scan report with each of the texts
\* without a failure marker, failed scans of two hosts, and a file that is no
\* scan report
Files ==
    [name : {FileA, FileB, FileC, FileD},
     text : {TextHeartbleed, TextThreeFindings, TextNoFinding}]
    \cup [name : {FileA, Readme}, text : {TextCannotReach}]
    \cup [name : {FileA, FileC}, text : {TextNoSSL}]
    \cup [name : {Readme}, text : {TextHeartbleed}]

\* a dataset whose record of 10.0.0.1 has no fields
EmptyRecordDataset ==
    [ip \in IPv4Tokens |->
        IF ip = "10.0.0.1" THEN [AbsentHost EXCEPT !.present = TRUE] ELSE AbsentHost]

\* a dataset with vulnerabilities of both sources, as a list and as a dict,
\* and with findings of an earlier scan
ScannedDataset ==
    [ip \in IPv4Tokens |->
        IF ip = "10.0.0.1"
        THEN [present |-> TRUE,
              fields |-> {"vulnerabilities", "attacks", "bugs", "country"},
              vulnerabilities |->
                  [keys |-> {"shodan_vulnerabilities", "vulners_vulnerabilities"},
                   shodan_vulnerabilities |->
                       [isdict |-> FALSE, ids |-> <<"CVE-2014-0160", "CVE-2014-0160">>],
                   vulners_vulnerabilities |->
                       [isdict |-> TRUE, ids |-> <<"CVE-2016-2107">>]],
              attacks |-> << <<"DROWN">> >>,
              bugs |-> << <<"Version", "Intolerant">> >>,
              country |-> "US"]
        ELSE IF ip = "10.0.0.2"
        THEN [present |-> TRUE,
              fields |-> {"vulnerabilities", "country"},
              vulnerabilities |->
                  [keys |-> {"shodan_vulnerabilities"},
                   shodan_vulnerabilities |->
                       [isdict |-> TRUE, ids |-> <<"CVE-2014-0160">>],
                   vulners_vulnerabilities |-> NoSource],
              attacks |-> <<>>,
              bugs |-> <<>>,
              country |-> "DE"]
        ELSE AbsentHost]

HostDatasets == {EmptyRecordDataset, ScannedDataset}

(***************************************************************************)
(* load_tls_scan_results, step by step                                     *)
(***************************************************************************)
Init ==
    /\ \E h \in HostDatasets : Idle(h)
    /\ pc = "loop"
    /\ results = <<>>
    /\ parsed = NoParse

\* one iteration of `for file in listdir(full_path)` (lines 125-161);
\* a directory holds a filename once
LoopStep ==
    /\ pc = "loop"
    /\ run = 1
    /\ idx < MaxFiles
    /\ \E file \in Files :
          /\ \A i \in DOMAIN listing : listing[i].name # file.name
          /\ listing' = Append(listing, file)
          /\ ProcessFile(file)
    /\ idx' = idx + 1
    /\ UNCHANGED <<hosts0, run, pc, unique_attacks, unique_bugs,
                   unique_vulnerabilities, json, prev_json, groupped_rows,
                   results, parsed>>

\* the end of the loop, the three counts and the four JSON files (lines 163-170)
FinishLoop ==
    /\ pc = "loop"
    /\ run = 1 \/ idx = Len(listing)
    /\ unique_attacks' = count_unique_entities(all_results, "attacks")
    /\ unique_bugs' = count_unique_entities(all_results, "bugs")
    /\ unique_vulnerabilities' = count_unique_entities(all_results, "vulnerabilities")
    /\ json' = [full |-> all_results,
                attacks |-> unique_attacks',
                bugs |-> unique_bugs',
                vulnerabilities |-> unique_vulnerabilities']
    /\ pc' = "json_saved"
    /\ UNCHANGED <<hosts, hosts0, listing, idx, run, all_results, prev_json,
                   groupped_rows, results, parsed>>

\* variant: the writer fills a copy of each record, not the record itself
save_results_csv_on_copy(res) == res

\* save_results_csv: data.update({"ip": ip}) and the conversion of attacks and
\* bugs to the lists of their keys act on the records of all_results (line 246-250)
save_results_csv(res) ==
    [i \in DOMAIN res |-> [key |-> res[i].key, val |-> [res[i].val EXCEPT !.ip = res[i].key]]]

\* the four CSV files of lines 172-175
SaveCsv ==
    /\ pc = "json_saved"
    /\ all_results' = save_results_csv(all_results)
    /\ pc' = "csv_saved"
    /\ UNCHANGED <<hosts, hosts0, listing, idx, run, unique_attacks, unique_bugs,
                   unique_vulnerabilities, json, prev_json, groupped_rows,
                   results, parsed>>

Vendors(res) == {res[i].val.vendor : i \in DOMAIN res}

Products(res) == {res[i].val.product : i \in DOMAIN res}

\* save_unique_groupped_results_csv (line 177); None + ":" raises TypeError
SaveGroupped ==
    /\ pc = "csv_saved"
    /\ IF \E i \in DOMAIN all_results :
             all_results[i].val.attacks # <<>> /\ all_results[i].val.ip = None
       THEN pc' = "TypeError" /\ UNCHANGED groupped_rows
       ELSE /\ \E vorder \in Orderings(Vendors(all_results)),
                  porder \in Orderings(Products(all_results)) :
                  groupped_rows' = GrouppedRows(GrouppedResults(all_results, vorder, porder))
            /\ pc' = "done"
    /\ UNCHANGED <<hosts, hosts0, listing, idx, run, all_results, unique_attacks,
                   unique_bugs, unique_vulnerabilities, json, prev_json,
                   results, parsed>>

Next == LoopStep \/ FinishLoop \/ SaveCsv \/ SaveGroupped

Spec == Init /\ [][Next]_vars

(***************************************************************************)
(* A second call of load_tls_scan_results over the same directory          *)
(***************************************************************************)
MaxRerunFiles == 2  \* files in a directory that is ingested twice

\* the caller resets the dataset and calls load_tls_scan_results again
Rerun ==
    /\ pc = "done"
    /\ run = 1
    /\ Len(listing) <= MaxRerunFiles
    /\ run' = 2
    /\ hosts' = hosts0
    /\ idx' = 0
    /\ all_results' = <<>>
    /\ unique_attacks' = <<>>
    /\ unique_bugs' = <<>>
    /\ unique_vulnerabilities' = <<>>
    /\ prev_json' = json
    /\ json' = NoJson
    /\ groupped_rows' = <<>>
    /\ pc' = "loop"
    /\ UNCHANGED <<hosts0, listing, results, parsed>>

\* one iteration of the loop of the second call: the same files, in the same order
LoopStepAgain ==
    /\ pc = "loop"
    /\ run = 2
    /\ idx < Len(listing)
    /\ ProcessFile(listing[idx + 1])
    /\ idx' = idx + 1
    /\ UNCHANGED <<hosts0, listing, run, pc, unique_attacks, unique_bugs,
                   unique_vulnerabilities, json, prev_json, groupped_rows,
                   results, parsed>>

NextRerun == LoopStep \/ FinishLoop \/ SaveCsv \/ SaveGroupped \/ Rerun \/ LoopStepAgain

SpecRerun == Init /\ [][NextRerun]_vars

(***************************************************************************)
(* Properties                                                              *)
(***************************************************************************)
\* the report text contains one of the two failure markers
TextHasMarker(text) ==
    \E i \in DOMAIN text :
        Contains(text[i].name, CannotReach) \/ Contains(text[i].name, NoSSL)

WellFormed(name) == search_pattern(name) # <<>>

\* a usable file: no failure marker and a filename that parses
Usable(file) == ~TextHasMarker(file.text) /\ WellFormed(file.name)

\* the positions, among the files processed so far, of the usable files of ip
UsableIdx(ip) ==
    {i \in 1..idx : Usable(listing[i]) /\ listing[i].name.parts[1] = ip}

Min(S) == CHOOSE x \in S : \A y \in S : x <= y

Max(S) == CHOOSE x \in S : \A y \in S : x >= y

\* the record is the HostRecord built from the file
BuiltFrom(record, file, ip) ==
    /\ record.vendor = ReplaceUnderscores(file.name.parts[3])
    /\ record.product = ReplaceUnderscores(file.name.parts[4])
    /\ record.port = file.name.parts[2]
    /\ record.attacks = ParseCatalog(LIST_OF_ATTACKS, file.text)
    /\ record.bugs = ParseCatalog(LIST_OF_BUGS, file.text)
    /\ record.vulnerabilities \in search_vulnerabilities(hosts0, ip)

\* C1: processing a file whose text contains a failure marker decodes to the
\* error sentinel and leaves the result map and the dataset exactly as they
\* were, whatever else the text contains and whatever its filename is.
C1_MarkerFileSkipped ==
    [][(idx' = idx + 1 /\ TextHasMarker(listing'[idx'].text))
          => /\ parse_attacks(listing'[idx'].text).error
             /\ all_results' = all_results
             /\ hosts' = hosts]_vars

\* a marker file with a well-formed name and a "Heartbleed : true" line, and a
\* marker file with a malformed name, have been processed after a usable file
C1_Witness ==
    /\ \E i \in 1..idx :
          /\ TextHasMarker(listing[i].text)
          /\ WellFormed(listing[i].name)
          /\ \E k \in DOMAIN listing[i].text :
                listing[i].text[k] = [name |-> Heartbleed, value |-> "true"]
          /\ \E j \in 1..(i - 1) : Usable(listing[j])
    /\ \E i \in 1..idx :
          TextHasMarker(listing[i].text) /\ ~WellFormed(listing[i].name)
    /\ all_results # <<>>

\* C2: the result map holds, for every ip, the HostRecord built from the first
\* usable file for that ip in processing order, and no entry for an ip without
\* a usable file.
C2_FirstUsableFileKept ==
    \A ip \in IPv4Tokens :
        IF UsableIdx(ip) = {} THEN ~DictHas(all_results, ip)
        ELSE /\ DictHas(all_results, ip)
             /\ BuiltFrom(DictGet(all_results, ip), listing[Min(UsableIdx(ip))], ip)

\* two usable files of one ip have been processed; the first decoded to empty
\* attacks and bugs, the later one did not, and they differ in port and product
C2_Witness ==
    \E ip \in IPv4Tokens : \E i, j \in UsableIdx(ip) :
        /\ i < j
        /\ parse_attacks(listing[i].text).attacks = <<>>
        /\ parse_attacks(listing[i].text).bugs = <<>>
        /\ parse_attacks(listing[j].text).attacks # <<>>
        /\ listing[i].name.parts[2] # listing[j].name.parts[2]
        /\ DictGet(all_results, ip).attacks = <<>>

\* at most one record per ip
OneRecordPerIp ==
    \A ip \in IPv4Tokens :
        Cardinality({i \in DOMAIN all_results : all_results[i].key = ip}) <= 1

\* C3 (as stated): the result map retains at most one HostRecord per ip, and
\* the record retained is the one built from the last file processed for it.
C3_LastFileWins ==
    /\ OneRecordPerIp
    /\ \A ip \in IPv4Tokens :
          UsableIdx(ip) # {} =>
              /\ DictHas(all_results, ip)
              /\ BuiltFrom(DictGet(all_results, ip), listing[Max(UsableIdx(ip))], ip)

\* C3 (amended): the result map retains at most one HostRecord per ip, even if
\* several report files exist for that ip, and the record retained has the
\* vendor, product, port and findings of the first usable file processed for it.
C3_OneRecordFirstFileWins ==
    /\ OneRecordPerIp
    /\ \A i \in DOMAIN all_results :
          LET ip == all_results[i].key
          IN /\ UsableIdx(ip) # {}
             /\ BuiltFrom(all_results[i].val, listing[Min(UsableIdx(ip))], ip)

\* files for two ports of one ip have been processed, and the record kept has
\* the port of the first and not of the last
C3_Witness ==
    \E ip \in IPv4Tokens :
        /\ Cardinality(UsableIdx(ip)) >= 2
        /\ DictHas(all_results, ip)
        /\ DictGet(all_results, ip).port = listing[Min(UsableIdx(ip))].name.parts[2]
        /\ DictGet(all_results, ip).port # listing[Max(UsableIdx(ip))].name.parts[2]

\* the positions of the usable files of ip that decoded to a non-empty field
NonEmptyIdx(ip, field) ==
    {i \in UsableIdx(ip) : parse_attacks(listing[i].text)[field] # <<>>}

\* C4: for every ip that is a key of the dataset (whatever record is stored
\* under it), each of the fields attacks and bugs holds the value decoded from
\* the last usable file for that ip that had a non-empty value for it, and is
\* as the caller left it when there was no such file.
C4_DatasetHoldsLastNonEmpty ==
    \A ip \in IPv4Tokens : \A field \in {"attacks", "bugs"} :
        hosts0[ip].present =>
            IF NonEmptyIdx(ip, field) # {}
            THEN /\ field \in hosts[ip].fields
                 /\ hosts[ip][field] =
                        parse_attacks(listing[Max(NonEmptyIdx(ip, field))].text)[field]
            ELSE /\ hosts[ip][field] = hosts0[ip][field]
                 /\ (field \in hosts[ip].fields) = (field \in hosts0[ip].fields)

\* C8: no ip is added to or removed from the dataset, no field other than
\* attacks and bugs changes, no key of a record is removed, and the record of
\* an ip changes only if the ip was a key of the dataset and a usable file for
\* it was processed.
C8_DatasetFrame ==
    \A ip \in IPv4Tokens :
        /\ hosts[ip].present = hosts0[ip].present
        /\ hosts[ip].vulnerabilities = hosts0[ip].vulnerabilities
        /\ hosts[ip].country = hosts0[ip].country
        /\ hosts0[ip].fields \subseteq hosts[ip].fields
        /\ hosts[ip].fields \ {"attacks", "bugs"} = hosts0[ip].fields \ {"attacks", "bugs"}
        /\ (~hosts0[ip].present \/ UsableIdx(ip) = {}) => hosts[ip] = hosts0[ip]

\* the dataset has been written for one ip, and a usable file with findings
\* has been processed for an ip that is not a key of the dataset
C8_Witness ==
    /\ hosts # hosts0
    /\ \E ip \in IPv4Tokens :
          /\ ~hosts0[ip].present
          /\ NonEmptyIdx(ip, "attacks") # {}
          /\ DictHas(all_results, ip)

EntTypes == {"attacks", "bugs", "vulnerabilities"}

\* the frequency table computed for a field
Table(ent_type) ==
    CASE ent_type = "attacks" -> unique_attacks
      [] ent_type = "bugs" -> unique_bugs
      [] ent_type = "vulnerabilities" -> unique_vulnerabilities

\* the hosts whose collection of the field contains the name
HostsWith(ent_type, name) ==
    {i \in DOMAIN all_results : name \in Range(all_results[i].val[ent_type])}

Counted == pc \in {"json_saved", "csv_saved", "done"}

\* C6: each frequency table gives each name the number of hosts' collections
\* it occurs in and has no other names, so the sum of its counts is the total
\* number of entries of the field, and its entries are in non-increasing order
\* of count.
C6_FrequencyTable ==
    Counted =>
        \A ent_type \in EntTypes :
            LET table == Table(ent_type)
            IN /\ \A i, j \in DOMAIN table : table[i].key = table[j].key => i = j
               /\ \A i \in DOMAIN table :
                     table[i].val = Cardinality(HostsWith(ent_type, table[i].key))
               /\ \A h \in DOMAIN all_results :
                     Range(all_results[h].val[ent_type]) \subseteq DictKeys(table)
               /\ Sum([i \in DOMAIN table |-> table[i].val])
                     = Sum([h \in DOMAIN all_results |-> Len(all_results[h].val[ent_type])])
               /\ \A i, j \in DOMAIN table : i < j => table[i].val >= table[j].val

\* the attack that was met first is the rarer one, and the vulnerability table
\* counts an identifier known for two hosts
C6_Witness ==
    /\ Counted
    /\ Len(unique_attacks) >= 2
    /\ unique_attacks[1].val > unique_attacks[2].val
    /\ all_results[1].val.attacks[1] = unique_attacks[2].key
    /\ \E i \in DOMAIN unique_vulnerabilities : unique_vulnerabilities[i].val = 2
    /\ unique_bugs # <<>>

\* the "(total)" rows and the product rows written for an attack
TotalRows(attack) ==
    {r \in DOMAIN groupped_rows :
        groupped_rows[r].attack = attack /\ groupped_rows[r].suffix = " (total)"}

ProductRows(attack) ==
    {r \in DOMAIN groupped_rows :
        groupped_rows[r].attack = attack /\ groupped_rows[r].suffix = ""}

RECURSIVE SumOver(_, _)
SumOver(S, f) ==
    IF S = {} THEN 0
    ELSE LET x == CHOOSE y \in S : TRUE IN f[x] + SumOver(S \ {x}, f)

\* the places of the product rows of the attack where the host is listed
Attributions(attack, h) ==
    {<<r, k>> \in ProductRows(attack) \X (1..Len(all_results)) :
        /\ k \in DOMAIN groupped_rows[r].ips
        /\ groupped_rows[r].ips[k] = <<all_results[h].key, all_results[h].val.port>>}

\* C7: for every attack A, the "(total)" quantities written for A sum to the
\* attack frequency table's count for A, and every host whose attacks contain
\* A is listed exactly once, in the row of its own vendor and product.
C7_TotalsMatchFrequency ==
    pc = "done" =>
        /\ \A a \in DOMAIN unique_attacks :
              SumOver(TotalRows(unique_attacks[a].key),
                      [r \in DOMAIN groupped_rows |-> groupped_rows[r].quantity])
                  = unique_attacks[a].val
        /\ \A a \in DOMAIN unique_attacks : \A h \in HostsWith("attacks", unique_attacks[a].key) :
              /\ Cardinality(Attributions(unique_attacks[a].key, h)) = 1
              /\ \A at \in Attributions(unique_attacks[a].key, h) :
                    /\ groupped_rows[at[1]].vendor = all_results[h].val.vendor
                    /\ groupped_rows[at[1]].product = all_results[h].val.product
        /\ \A r \in DOMAIN groupped_rows : groupped_rows[r].quantity = Len(groupped_rows[r].ips)

\* an attack found on hosts of two vendors, one of them with two products
C7_Witness ==
    /\ pc = "done"
    /\ \E a \in DOMAIN unique_attacks :
          /\ Cardinality(TotalRows(unique_attacks[a].key)) = 2
          /\ unique_attacks[a].val = 3
          /\ Cardinality(ProductRows(unique_attacks[a].key)) = 3

\* C9: a second run over the same directory, in the same file order, with the
\* dataset reset, writes the same JSON content as the first run.
C9_RerunWritesSameJson ==
    (run = 2 /\ pc = "done") => json = prev_json

\* C10: for every attack and vendor, the vendor's products appear in
\* non-increasing order of quantity.
C10_ProductsByQuantity ==
    pc = "done" =>
        \A r, q \in DOMAIN groupped_rows :
            (/\ r < q
             /\ groupped_rows[r].suffix = ""
             /\ groupped_rows[q].suffix = ""
             /\ groupped_rows[r].attack = groupped_rows[q].attack
             /\ groupped_rows[r].vendor = groupped_rows[q].vendor)
                => groupped_rows[r].quantity >= groupped_rows[q].quantity

\* a second run has ended, over a directory with a usable file for a host that
\* has two vulnerability identifiers
C9_Witness ==
    /\ run = 2
    /\ pc = "done"
    /\ \E i \in DOMAIN all_results : Len(all_results[i].val.vulnerabilities) = 2

\* a vendor with two products under one attack, of different quantities
C10_Witness ==
    /\ pc = "done"
    /\ \E r, q \in DOMAIN groupped_rows :
          /\ r # q
          /\ groupped_rows[r].suffix = ""
          /\ groupped_rows[q].suffix = ""
          /\ groupped_rows[r].attack = groupped_rows[q].attack
          /\ groupped_rows[r].vendor = groupped_rows[q].vendor
          /\ groupped_rows[r].quantity # groupped_rows[q].quantity

\* a report whose only line is for an entry whose name ends with another entry's name
C5_Witness ==
    /\ pc = "parsed"
    /\ results = <<[name |-> <<"Empty", "last", "Extension", "Intolerant">>, value |-> "true"]>>

\* a dataset record with no fields, and a usable file with findings for its ip
C4_Witness ==
    \E ip \in IPv4Tokens :
        /\ hosts0[ip].present
        /\ hosts0[ip].fields = {}
        /\ NonEmptyIdx(ip, "attacks") # {}

\* the records of the result map carry their key in the field ip
IpFieldsSet ==
    \A i \in DOMAIN all_results : all_results[i].val.ip = all_results[i].key

\* C11: records carry no ip field while ingestion inserts them and until the
\* flat CSV writer has run; the flat CSV writer runs before the grouped writer
\* and sets each record's ip field to its key, so the grouped writer never
\* reads a missing ip, and every "ip:port" it writes is the key and the port
\* of a record.
C11_IpSetBeforeGroupedWriter ==
    /\ pc \in {"loop", "json_saved"} =>
          \A i \in DOMAIN all_results : all_results[i].val.ip = None
    /\ pc \in {"csv_saved", "done"} => IpFieldsSet
    /\ pc # "TypeError"
    /\ pc = "done" =>
          \A r \in DOMAIN groupped_rows : \A k \in DOMAIN groupped_rows[r].ips :
              \E i \in DOMAIN all_results :
                  groupped_rows[r].ips[k] = <<all_results[i].key, all_results[i].val.port>>

\* the grouped writer has written rows for the records of two hosts
C11_Witness ==
    /\ pc = "done"
    /\ Len(all_results) >= 2
    /\ \E r \in DOMAIN groupped_rows : Len(groupped_rows[r].ips) >= 2

====
